---- MODULE Spec2Model ----
(***************************************************************************)
(* A model of circuitpython_wifimanager.WiFiManager                        *)
(* (src/circuitpython_wifimanager/__init__.py).                            *)
(*                                                                         *)
(* The manager is single-threaded and blocking: one call runs at a time    *)
(* (pc = "idle" between calls).  A call is cut into steps at the points    *)
(* where it reads the radio's live association info (radio.ap_info), since *)
(* the radio is the one piece of state that changes outside the manager:   *)
(* the association can be lost at any moment (RadioDrop) and can be made   *)
(* by other code of the program while no manager call is running           *)
(* (RadioJoin, e.g. the board joining a network before the manager is      *)
(* used).  Within a call the association is made only by radio.connect.    *)
(*                                                                         *)
(* Exceptions are named by their Python class.  A call that ends records   *)
(* the outcome in result: "ok" or the class of the exception raised.       *)
(***************************************************************************)
EXTENDS Integers, Sequences, FiniteSets, TLC

\* ---------------------------------------------------------------- bounds
MaxLen == 2         \* longest SSID / password sequence in secrets
MaxFetch == 3       \* credential fetches made on one manager
MaxAttempts == 2    \* calls of radio.connect within one call of the manager
MaxCloses == 2      \* calls of close() on a socket pool

\* ------------------------------------------------------------- constants
NORMAL == 1
ENTERPRISE == 2

None == 0           \* the value of _pool / _requests before connect()

SsidNames == <<"A", "B", "C", "D">>
PasswordNames == <<"a", "b", "c", "d">>

Prefix(names, n) == [i \in 1..n |-> names[i]]

\* secrets["ssid"]: a string, or a list/tuple of strings
SsidConfigs ==
    {[isSeq |-> FALSE, v |-> <<"A">>]}
        \cup {[isSeq |-> TRUE, v |-> Prefix(SsidNames, n)] : n \in 0..MaxLen}

\* secrets.get("password", None): absent, a string, or a list/tuple
PasswordConfigs ==
    {[kind |-> "none", v |-> <<"None">>], [kind |-> "str", v |-> <<"a">>]}
        \cup {[kind |-> "seq", v |-> Prefix(PasswordNames, n)] : n \in 0..MaxLen}

\* connection_type: NORMAL, ENTERPRISE, or any other integer
ConnectionTypes == {NORMAL, ENTERPRISE, 3}

RequestVerbs == {"get", "post", "put", "patch", "delete"}
GuardedOps == RequestVerbs \cup {"ping", "ip_address", "signal_strength", "get_ntp_time"}

\* A 32-bit word is kept as its two 16-bit halves, [hi, lo], and a time in
\* seconds likewise (value = hi * 65536 + lo, 0 <= lo < 65536, hi any integer).
Half == 256 * 256
Word(hi, lo) == [hi |-> hi, lo |-> lo]
Plus(t, n) == Word(t.hi + ((t.lo + n) \div Half), (t.lo + n) % Half)
Minus(t, u) == Word(t.hi - u.hi + ((t.lo - u.lo) \div Half), (t.lo - u.lo) % Half)

\* TIME1970 = 2208988800 = 33706 * 65536 + 32384
TIME1970 == Word(33706, 32384)

\* NTP responses: the number of bytes received and the word at index 10
\* (TIME1970 + 1700000000)
NtpSizes == {47, 48, 49}
NtpWords == {Word(59646, 28544)}
TzOffsets == {3600}

VARIABLES
    ssid, password,      \* self.ssid, self.password
    _connection_type,    \* self._connection_type
    statuspix,           \* self.statuspix is not None
    ap_info,             \* self.radio.ap_info is truthy (radio associated)
    _ap_index,           \* self._ap_index
    _pool,               \* self._pool: None or the id of a SocketPool
    _requests,           \* self._requests: None or the pool id of the Session
    pixel,               \* the value last written to the status pixel
    closeLog,            \* ids of the pools close() was called on, in order
    clock,               \* rtc.RTC().datetime as Unix seconds, in halves
    pc,                  \* position of the running call ("idle": none)
    op,                  \* the public method called last / running
    result,              \* outcome of the last call ("running" while it runs)
    ap,                  \* connect_normal's local (ssid, password)
    failure_count,       \* connect_normal's local failure_count
    trace,               \* what the running/last call did, in order
    pre,                 \* manager state when the running/last call began
    fetched,             \* pairs returned by _get_next_ap since construction
    ntp                  \* the call's NTP exchange: bytes received, word 10, tz_offset

config == <<ssid, password, _connection_type, statuspix>>
manager == <<_ap_index, _pool, _requests, pixel, closeLog, clock>>
call == <<pc, op, result, ap, failure_count, trace, pre, ntp>>
vars == <<config, manager, ap_info, call, fetched>>

\* the part of the manager's state a call can change
ManagerState ==
    [ap_index |-> _ap_index, pool |-> _pool, requests |-> _requests,
     pixel |-> pixel, closeLog |-> closeLog, clock |-> clock]

\* ---------------------------------------------------------------- helpers
\* events of trace: <<kind, x, y>>, all strings
Signal(v) == <<"signal", v, "">>
Attempt(pair) == <<"attempt", pair[1], pair[2]>>
Event(kind) == <<kind, "", "">>

Attempts(t) == SelectSeq(t, LAMBDA e : e[1] = "attempt")

\* pixel_status(value): writes the pixel only if one was given
pixel_status(value) == IF statuspix THEN value ELSE pixel

\* a plausible slip: the cursor is not advanced after the pair is read
_get_next_ap_stuck(s, p, idx) ==
    IF s.isSeq /\ p.kind = "seq"
    THEN IF Len(s.v) = 0 \/ Len(p.v) = 0
         THEN [err |-> "ValueError", ap |-> <<"", "">>, idx |-> idx]
         ELSE IF Len(s.v) # Len(p.v)
         THEN [err |-> "ValueError", ap |-> <<"", "">>, idx |-> idx]
         ELSE [err |-> "none", ap |-> <<s.v[idx + 1], p.v[idx + 1]>>, idx |-> idx]
    ELSE IF s.isSeq \/ p.kind = "seq"
    THEN [err |-> "NotImplementedError", ap |-> <<"", "">>, idx |-> idx]
    ELSE [err |-> "none", ap |-> <<s.v[1], p.v[1]>>, idx |-> idx]

\* a plausible slip: sequences of unequal length are cut to the shorter one
_get_next_ap_truncating(s, p, idx) ==
    LET n == IF Len(s.v) < Len(p.v) THEN Len(s.v) ELSE Len(p.v) IN
    IF s.isSeq /\ p.kind = "seq"
    THEN IF n = 0
         THEN [err |-> "ValueError", ap |-> <<"", "">>, idx |-> idx]
         ELSE [err |-> "none",
               ap |-> <<s.v[idx + 1], p.v[idx + 1]>>,
               idx |-> IF idx + 1 >= n THEN 0 ELSE idx + 1]
    ELSE IF s.isSeq \/ p.kind = "seq"
    THEN [err |-> "NotImplementedError", ap |-> <<"", "">>, idx |-> idx]
    ELSE [err |-> "none", ap |-> <<s.v[1], p.v[1]>>, idx |-> idx]

\* a plausible slip: the cursor is advanced for scalar credentials too
_get_next_ap_scalar_advances(s, p, idx) ==
    IF s.isSeq /\ p.kind = "seq"
    THEN IF Len(s.v) = 0 \/ Len(p.v) = 0
         THEN [err |-> "ValueError", ap |-> <<"", "">>, idx |-> idx]
         ELSE IF Len(s.v) # Len(p.v)
         THEN [err |-> "ValueError", ap |-> <<"", "">>, idx |-> idx]
         ELSE [err |-> "none",
               ap |-> <<s.v[idx + 1], p.v[idx + 1]>>,
               idx |-> IF idx + 1 >= Len(s.v) THEN 0 ELSE idx + 1]
    ELSE IF s.isSeq \/ p.kind = "seq"
    THEN [err |-> "NotImplementedError", ap |-> <<"", "">>, idx |-> idx]
    ELSE [err |-> "none", ap |-> <<s.v[1], p.v[1]>>, idx |-> idx + 1]

\* a plausible slip: the wrap test is > where the code has >=
_get_next_ap_wraps_late(s, p, idx) ==
    IF s.isSeq /\ p.kind = "seq"
    THEN IF Len(s.v) = 0 \/ Len(p.v) = 0
         THEN [err |-> "ValueError", ap |-> <<"", "">>, idx |-> idx]
         ELSE IF Len(s.v) # Len(p.v)
         THEN [err |-> "ValueError", ap |-> <<"", "">>, idx |-> idx]
         ELSE [err |-> "none",
               ap |-> <<s.v[(idx % Len(s.v)) + 1], p.v[(idx % Len(s.v)) + 1]>>,
               idx |-> IF idx + 1 > Len(s.v) THEN 0 ELSE idx + 1]
    ELSE IF s.isSeq \/ p.kind = "seq"
    THEN [err |-> "NotImplementedError", ap |-> <<"", "">>, idx |-> idx]
    ELSE [err |-> "none", ap |-> <<s.v[1], p.v[1]>>, idx |-> idx]

\* _get_next_ap: the pair, the new cursor, or the exception raised
_get_next_ap(s, p, idx) ==
    IF s.isSeq /\ p.kind = "seq"
    THEN IF Len(s.v) = 0 \/ Len(p.v) = 0
         THEN [err |-> "ValueError", ap |-> <<"", "">>, idx |-> idx]
         ELSE IF Len(s.v) # Len(p.v)
         THEN [err |-> "ValueError", ap |-> <<"", "">>, idx |-> idx]
         ELSE [err |-> "none",
               ap |-> <<s.v[idx + 1], p.v[idx + 1]>>,
               idx |-> IF idx + 1 >= Len(s.v) THEN 0 ELSE idx + 1]
    ELSE IF s.isSeq \/ p.kind = "seq"
    THEN [err |-> "NotImplementedError", ap |-> <<"", "">>, idx |-> idx]
    ELSE [err |-> "none", ap |-> <<s.v[1], p.v[1]>>, idx |-> idx]

\* a plausible slip: the stub returns instead of raising
connect_enterprise_returns == "ok"

\* the three stubs: raise NotImplementedError as their first statement
reset == "NotImplementedError"
create_ap == "NotImplementedError"
connect_enterprise == "NotImplementedError"

NoNtp == [size |-> 0, w |-> Word(0, 0), tz |-> 0]

\* ------------------------------------------------------------------- Init
Init ==
    /\ ssid \in SsidConfigs
    /\ password \in PasswordConfigs
    /\ _connection_type \in ConnectionTypes
    /\ statuspix \in BOOLEAN
    /\ ap_info \in BOOLEAN
    /\ _ap_index = 0
    /\ _pool = None
    /\ _requests = None
    /\ pixel = IF statuspix THEN "off" ELSE "absent"
    /\ closeLog = <<>>
    /\ clock = Word(0, 0)
    /\ pc = "idle"
    /\ op = "__init__"
    /\ result = "ok"
    /\ ap = <<"", "">>
    /\ failure_count = 0
    /\ trace = <<>>
    /\ pre = [ap_index |-> 0, pool |-> None, requests |-> None,
              pixel |-> IF statuspix THEN "off" ELSE "absent",
              closeLog |-> <<>>, clock |-> Word(0, 0)]
    /\ fetched = <<>>
    /\ ntp = NoNtp

\* ------------------------------------------------------------ environment
\* the positions at which the running call reads radio.ap_info next
ReadsApInfo ==
    \/ pc \in {"guard", "loop"}
    \/ pc = "body" /\ op = "signal_strength"

\* the radio loses its association.  Within a call the loss is taken where
\* the call is about to read radio.ap_info (a loss at any earlier position
\* is seen by the call at that same read), and while the bound leaves room
\* for the association attempt that may follow.
RadioDrop ==
    /\ ap_info
    /\ pc = "idle" \/ (ReadsApInfo /\ Len(Attempts(trace)) < MaxAttempts)
    /\ ap_info' = FALSE
    /\ UNCHANGED <<config, manager, call, fetched>>

\* other code associates the radio while no manager call is running
RadioJoin ==
    /\ pc = "idle"
    /\ ~ap_info
    /\ ap_info' = TRUE
    /\ UNCHANGED <<config, manager, call, fetched>>

\* ------------------------------------------------------------ call / return
\* a public method is called on the idle manager
Enter(name) ==
    /\ pc = "idle"
    /\ op' = name
    /\ pre' = ManagerState
    /\ ntp' = NoNtp

\* the running call returns (r = "ok") or raises r
End(r) ==
    /\ pc' = "idle"
    /\ result' = r

\* a call that may fetch credentials is made while the bound allows a fetch
CanFetch == Len(fetched) < MaxFetch

\* a call that takes more than one step starts at position first
Start(name, first) ==
    /\ Enter(name)
    /\ CanFetch
    /\ pc' = first
    /\ result' = "running"
    /\ trace' = <<>>
    /\ ap' = <<"", "">>
    /\ failure_count' = 0
    /\ UNCHANGED <<config, manager, ap_info, fetched>>

Released(p) == \E i \in DOMAIN closeLog : closeLog[i] = p

\* ------------------------------------------------------------------ stubs
\* a stub is called directly: it raises at once
Stub(name, raised) ==
    /\ Enter(name)
    /\ End(raised)
    /\ trace' = <<>>
    /\ UNCHANGED <<config, manager, ap_info, ap, failure_count, fetched>>

CallReset == Stub("reset", reset)
CallCreateAp == Stub("create_ap", create_ap)
CallConnectEnterprise == Stub("connect_enterprise", connect_enterprise)

\* -------------------------------------------------------------- _get_next_ap
\* _get_next_ap called on its own
CallGetNextAp ==
    LET r == _get_next_ap(ssid, password, _ap_index) IN
    /\ Enter("_get_next_ap")
    /\ CanFetch
    /\ IF r.err = "none"
       THEN /\ End("ok")
            /\ ap' = r.ap
            /\ _ap_index' = r.idx
            /\ fetched' = Append(fetched, r.ap)
            /\ trace' = <<Event("fetch")>>
       ELSE /\ End(r.err)
            /\ trace' = <<>>
            /\ UNCHANGED <<ap, _ap_index, fetched>>
    /\ UNCHANGED <<config, _pool, _requests, pixel, closeLog, clock, ap_info,
                   failure_count>>

\* ------------------------------------------------------------------ connect
CallConnect == Start("connect", "connect")
CallConnectNormal == Start("connect_normal", "connect_normal")

\* a plausible slip: an unknown connection type falls through to connect_normal
connect_dispatch_fallthrough ==
    IF _connection_type = ENTERPRISE THEN "connect_enterprise" ELSE "connect_normal"

\* connect(): the branch the if / elif / else on the connection type takes
connect_dispatch ==
    IF _connection_type = NORMAL THEN "connect_normal"
    ELSE IF _connection_type = ENTERPRISE THEN "connect_enterprise"
    ELSE "TypeError"

\* connect(): the dispatch on the connection type.  (With debug set, connect
\* first prints the MAC address and a network scan: no state of the manager
\* or of the radio's association changes, so the block is a no-op here.)
Connect ==
    /\ pc = "connect"
    /\ IF connect_dispatch = "connect_normal"
       THEN pc' = "connect_normal" /\ UNCHANGED result
       ELSE IF connect_dispatch = "connect_enterprise"
       THEN IF connect_enterprise = "ok"
            THEN pc' = "session" /\ UNCHANGED result
            ELSE End(connect_enterprise)
       ELSE End(connect_dispatch)
    /\ UNCHANGED <<config, manager, ap_info, op, ap, failure_count, trace,
                   pre, fetched, ntp>>

\* connect_normal(): failure_count = 0 and the one credential fetch
ConnectNormalFetch ==
    LET r == _get_next_ap(ssid, password, _ap_index) IN
    /\ pc = "connect_normal"
    /\ IF r.err = "none"
       THEN /\ pc' = "loop"
            /\ ap' = r.ap
            /\ _ap_index' = r.idx
            /\ fetched' = Append(fetched, r.ap)
            /\ failure_count' = 0
            /\ trace' = Append(trace, Event("fetch"))
            /\ UNCHANGED result
       ELSE /\ End(r.err)
            /\ UNCHANGED <<ap, _ap_index, fetched, failure_count, trace>>
    /\ UNCHANGED <<config, _pool, _requests, pixel, closeLog, clock, ap_info,
                   op, pre, ntp>>

\* what connect_normal's caller does when it returns
AfterConnectNormal ==
    IF op = "connect_normal" THEN End("ok") ELSE pc' = "session" /\ UNCHANGED result

\* a plausible slip: the loop gives up after a failed attempt (an attempt cap)
ConnectNormalLoop_capped ==
    /\ pc = "loop"
    /\ IF ~ap_info /\ failure_count < 1
       THEN pc' = "attempt" /\ UNCHANGED result
       ELSE AfterConnectNormal
    /\ UNCHANGED <<config, manager, ap_info, op, ap, failure_count, trace, pre,
                   fetched, ntp>>

\* connect_normal(): the test of "while not self.radio.ap_info"
ConnectNormalLoop ==
    /\ pc = "loop"
    /\ IF ~ap_info
       THEN pc' = "attempt" /\ UNCHANGED result
       ELSE AfterConnectNormal
    /\ UNCHANGED <<config, manager, ap_info, op, ap, failure_count, trace, pre,
                   fetched, ntp>>

\* a plausible slip: the except clause names RuntimeError only
Transient_RuntimeErrorOnly == {"RuntimeError"}

\* the classes connect_normal's except clause catches
Transient == {"ValueError", "RuntimeError"}

\* a plausible slip: the pixel is set to "connected" before radio.connect
AttemptOk_signals_early ==
    /\ pc = "attempt"
    /\ ap_info' = TRUE
    /\ failure_count' = 0
    /\ pixel' = pixel_status("connected")
    /\ trace' = trace \o <<Signal("connecting"), Signal("connected"), Attempt(ap)>>
    /\ pc' = "loop"
    /\ UNCHANGED <<config, _ap_index, _pool, _requests, closeLog, clock, op,
                   result, ap, pre, fetched, ntp>>

\* radio.connect returns: the radio is associated
AttemptOk ==
    /\ pc = "attempt"
    /\ ap_info' = TRUE
    /\ failure_count' = 0
    /\ pixel' = pixel_status("connected")
    /\ trace' = trace \o <<Signal("connecting"), Attempt(ap), Signal("connected")>>
    /\ pc' = "loop"
    /\ UNCHANGED <<config, _ap_index, _pool, _requests, closeLog, clock, op,
                   result, ap, pre, fetched, ntp>>

\* a plausible slip: the commented-out rotation, run on every failure
Raised_rotating(e) ==
    LET r == _get_next_ap(ssid, password, _ap_index) IN
    /\ pixel' = pixel_status("connecting")
    /\ IF e \in {"ValueError", "RuntimeError"}
       THEN /\ failure_count' = failure_count + 1
            /\ ap' = r.ap
            /\ _ap_index' = r.idx
            /\ fetched' = Append(fetched, r.ap)
            /\ trace' = trace \o <<Signal("connecting"), Attempt(ap),
                                   <<"raised", e, "">>, Event("fetch")>>
            /\ pc' = "loop"
            /\ UNCHANGED result
       ELSE /\ End(e)
            /\ trace' = trace \o <<Signal("connecting"), Attempt(ap), <<"raised", e, "">>>>
            /\ UNCHANGED <<failure_count, ap, _ap_index, fetched>>
    /\ UNCHANGED <<config, _pool, _requests, closeLog, clock,
                   ap_info, op, pre, ntp>>

\* radio.connect raises e
Raised(e) ==
    /\ pixel' = pixel_status("connecting")
    /\ trace' = trace \o <<Signal("connecting"), Attempt(ap), <<"raised", e, "">>>>
    /\ IF e \in Transient
       THEN /\ failure_count' = failure_count + 1
            /\ pc' = "loop"
            /\ UNCHANGED result
       ELSE /\ End(e)
            /\ UNCHANGED failure_count
    /\ UNCHANGED <<config, _ap_index, _pool, _requests, closeLog, clock,
                   ap_info, op, ap, pre, fetched, ntp>>

\* radio.connect fails transiently: it raises ValueError or RuntimeError
AttemptTransient ==
    /\ pc = "attempt"
    /\ Len(Attempts(trace)) + 1 < MaxAttempts
    /\ \E e \in {"ValueError", "RuntimeError"} : Raised(e)

\* radio.connect raises anything else
AttemptError ==
    /\ pc = "attempt"
    /\ Raised("ConnectionError")

\* radio.connect fails transiently once more, after the failures the trace
\* records: the loop caps nothing, so this step can repeat for ever.  The
\* trace is a history of bounded length and failure_count is only ever
\* written, so both stop growing at MaxAttempts.
AttemptAgain ==
    /\ pc = "attempt"
    /\ Len(Attempts(trace)) + 1 >= MaxAttempts
    /\ pixel' = pixel_status("connecting")
    /\ failure_count' = IF failure_count < MaxAttempts
                        THEN failure_count + 1 ELSE failure_count
    /\ pc' = "loop"
    /\ UNCHANGED <<config, _ap_index, _pool, _requests, closeLog, clock,
                   ap_info, op, result, ap, trace, pre, fetched, ntp>>

\* a plausible slip: the pool and the session are made once and then kept
Session_keeps ==
    /\ pc = "session"
    /\ _pool' = IF _pool = None THEN _pool + 1 ELSE _pool
    /\ _requests' = IF _pool = None THEN _pool + 1 ELSE _requests
    /\ trace' = Append(trace, Event("session"))
    /\ IF op = "connect" THEN End("ok") ELSE pc' = "body" /\ UNCHANGED result
    /\ UNCHANGED <<config, _ap_index, pixel, closeLog, clock, ap_info, op, ap,
                   failure_count, pre, fetched, ntp>>

\* connect(): the socket pool and the session, made after the dispatch.
\* Pools are numbered in the order they are made; _pool holds the latest.
Session ==
    /\ pc = "session"
    /\ _pool' = _pool + 1
    /\ _requests' = _pool + 1
    /\ trace' = Append(trace, Event("session"))
    /\ IF op = "connect" THEN End("ok") ELSE pc' = "body" /\ UNCHANGED result
    /\ UNCHANGED <<config, _ap_index, pixel, closeLog, clock, ap_info, op, ap,
                   failure_count, pre, fetched, ntp>>

\* -------------------------------------------------------- guarded operations
CallGuarded == \E o \in GuardedOps : Start(o, "guard")

\* a plausible slip: the guard connects whatever the radio reports
MustConnect_always == TRUE

\* "if not self.radio.ap_info": whether the guard calls connect()
MustConnect == ~ap_info

\* the guard every network operation starts with
Guard ==
    /\ pc = "guard"
    /\ trace' = Append(trace, Event(IF ap_info THEN "associated" ELSE "unassociated"))
    /\ pc' = IF MustConnect THEN "connect" ELSE "body"
    /\ UNCHANGED <<config, manager, ap_info, op, result, ap, failure_count,
                   pre, fetched, ntp>>

\* a plausible slip: post sets the pixel back to 0 like the other verbs
ResetsPixel_all(verb) == TRUE

\* the verbs that set the pixel back to 0 after the session call
ResetsPixel(verb) == verb # "post"

\* get / post / put / patch / delete after the guard
Request ==
    /\ pc = "body"
    /\ op \in RequestVerbs
    /\ IF _requests = None
       THEN /\ End("AssertionError")
            /\ UNCHANGED <<pixel, trace>>
       ELSE \E outcome \in {"ok", "OSError"} :
            LET dispatch == <<"dispatch", op,
                              IF Released(_requests) THEN "released" ELSE "live">>
                off == outcome = "ok" /\ ResetsPixel(op)
            IN  /\ pixel' = pixel_status(IF off THEN "off" ELSE "busy")
                /\ trace' = trace \o <<Signal("busy"), dispatch>>
                                  \o (IF off THEN <<Signal("off")>> ELSE <<>>)
                /\ End(outcome)
    /\ UNCHANGED <<config, _ap_index, _pool, _requests, closeLog, clock,
                   ap_info, op, ap, failure_count, pre, fetched, ntp>>

\* ping after the guard: address lookup through the pool, then radio.ping
Ping ==
    /\ pc = "body"
    /\ op = "ping"
    /\ IF _pool = None
       THEN /\ End("AssertionError")
            /\ UNCHANGED <<pixel, trace>>
       ELSE \E outcome \in {"ok", "OSError"} :
            /\ pixel' = pixel_status(IF outcome = "ok" THEN "off" ELSE "busy")
            /\ trace' = trace \o <<Signal("busy"), Event("getaddrinfo")>>
                              \o (IF outcome = "ok"
                                  THEN <<Event("radio.ping"), Signal("off")>>
                                  ELSE <<>>)
            /\ End(outcome)
    /\ UNCHANGED <<config, _ap_index, _pool, _requests, closeLog, clock,
                   ap_info, op, ap, failure_count, pre, fetched, ntp>>

\* ip_address after the guard
IpAddress ==
    /\ pc = "body"
    /\ op = "ip_address"
    /\ pixel' = pixel_status("off")
    /\ trace' = trace \o <<Signal("busy"), Signal("off")>>
    /\ End("ok")
    /\ UNCHANGED <<config, _ap_index, _pool, _requests, closeLog, clock,
                   ap_info, op, ap, failure_count, pre, fetched, ntp>>

\* signal_strength after the guard: reads self.radio.ap_info.rssi
SignalStrength ==
    /\ pc = "body"
    /\ op = "signal_strength"
    /\ End(IF ap_info THEN "ok" ELSE "AttributeError")
    /\ UNCHANGED <<config, manager, ap_info, op, ap, failure_count, trace,
                   pre, fetched, ntp>>

\* a plausible slip: the words are read whatever the number of bytes received
UnpackOk_unchecked(size) == TRUE

\* struct.unpack("!12I", buffer[:size]) needs exactly 12 * 4 bytes
UnpackOk(size) == size = 48

\* get_ntp_time after the guard
GetNtpTime ==
    /\ pc = "body"
    /\ op = "get_ntp_time"
    /\ IF _pool = None
       THEN /\ End("AssertionError")
            /\ UNCHANGED <<clock, ntp, trace>>
       ELSE \/ \* recvfrom_into times out
               /\ End("OSError")
               /\ trace' = trace \o <<Event("socket"), Event("sendto"), Event("close")>>
               /\ UNCHANGED <<clock, ntp>>
            \/ \E size \in NtpSizes, w \in NtpWords, tz \in TzOffsets :
               /\ ntp' = [size |-> size, w |-> w, tz |-> tz]
               /\ trace' = trace \o <<Event("socket"), Event("sendto"),
                                      Event("recvfrom_into"), Event("close")>>
               /\ IF UnpackOk(size)
                  THEN /\ clock' = Plus(Minus(w, TIME1970), tz)
                       /\ End("ok")
                  ELSE /\ End("struct.error")
                       /\ UNCHANGED clock
    /\ UNCHANGED <<config, _ap_index, _pool, _requests, pixel, closeLog,
                   ap_info, op, ap, failure_count, pre, fetched>>

\* ------------------------------------------------------------------- deinit
\* "self._pool.close()()": close() on the pool, then a call of what it
\* returned.  Either the pool has no close method (CircuitPython's SocketPool:
\* AttributeError, nothing released), or close() releases the pool and
\* returns None, and calling None raises TypeError.
PoolClose == {"AttributeError", "TypeError"}

Deinit(name) ==
    /\ Enter(name)
    /\ pixel' = pixel_status("off")
    /\ IF _pool = None
       THEN /\ End("ok")
            /\ trace' = <<Signal("off")>>
            /\ UNCHANGED closeLog
       ELSE \E raised \in PoolClose :
            /\ raised = "TypeError" => Len(closeLog) < MaxCloses
            /\ End(raised)
            /\ IF raised = "TypeError"
               THEN /\ trace' = <<Signal("off"), Event("close")>>
                    /\ closeLog' = Append(closeLog, _pool)
               ELSE /\ trace' = <<Signal("off")>>
                    /\ UNCHANGED closeLog
    /\ UNCHANGED <<config, _ap_index, _pool, _requests, clock, ap_info, ap,
                   failure_count, fetched>>

CallDeinit == Deinit("deinit")
\* __exit__ calls deinit and returns None
CallExit == Deinit("__exit__")

\* --------------------------------------------------------------------- Next
Next ==
    \/ RadioDrop
    \/ RadioJoin
    \/ CallReset
    \/ CallCreateAp
    \/ CallConnectEnterprise
    \/ CallGetNextAp
    \/ CallConnect
    \/ CallConnectNormal
    \/ Connect
    \/ ConnectNormalFetch
    \/ ConnectNormalLoop
    \/ AttemptOk
    \/ AttemptTransient
    \/ AttemptError
    \/ Session
    \/ CallGuarded
    \/ Guard
    \/ Request
    \/ Ping
    \/ IpAddress
    \/ SignalStrength
    \/ GetNtpTime
    \/ CallDeinit
    \/ CallExit

Spec == Init /\ [][Next]_vars

\* ------------------------------------------------- connecting, without a cap
\* connect() and connect_normal() on a radio that may fail without end
LiveNext ==
    \/ RadioDrop
    \/ RadioJoin
    \/ CallConnect
    \/ CallConnectNormal
    \/ Connect
    \/ ConnectNormalFetch
    \/ ConnectNormalLoop
    \/ AttemptOk
    \/ AttemptTransient
    \/ AttemptAgain
    \/ AttemptError
    \/ Session

\* the steps of a running call: the code is single-threaded and blocking, so
\* a call that has started goes on to its next statement
CallStep ==
    \/ Connect
    \/ ConnectNormalFetch
    \/ ConnectNormalLoop
    \/ AttemptOk
    \/ AttemptTransient
    \/ AttemptAgain
    \/ AttemptError
    \/ Session

\* the running call keeps stepping, and a radio that is asked to connect
\* again and again eventually associates
LiveSpec ==
    /\ Init
    /\ [][LiveNext]_vars
    /\ WF_vars(CallStep)
    /\ SF_vars(AttemptOk)

\* ================================================================== claims
Done == pc = "idle"

\* the call began with the guard and the radio reported / did not report
\* an association at the guard's check
GuardSaw(what) == op \in GuardedOps /\ Len(trace) >= 1 /\ trace[1] = Event(what)

HasEvent(kind) == \E i \in DOMAIN trace : trace[i][1] = kind
Count(kind) == Len(SelectSeq(trace, LAMBDA e : e[1] = kind))

\* the credential configuration is two equal-length sequences, N >= 1
ValidSeq ==
    /\ ssid.isSeq
    /\ password.kind = "seq"
    /\ Len(ssid.v) = Len(password.v)
    /\ Len(ssid.v) >= 1

Scalar == ~ssid.isSeq /\ password.kind # "seq"

Malformed(s, p) ==
    \/ s.isSeq /\ p.kind = "seq" /\ (Len(s.v) = 0 \/ Len(p.v) = 0 \/ Len(s.v) # Len(p.v))
    \/ s.isSeq /\ p.kind # "seq"
    \/ ~s.isSeq /\ p.kind = "seq"

PairAt(i) == <<ssid.v[i + 1], password.v[i + 1]>>

\* ---------------------------------------------------------------------- C1
\* C1: a guarded network operation that gets past its association check
\* never fails the assertion that the session / socket pool exists, whatever
\* the radio's initial state.
C1_AssertNeverFails ==
    op \in GuardedOps => result # "AssertionError"

\* ---------------------------------------------------------------------- C2
\* C2: when the radio reports an association at the guard's check, the
\* guarded operation makes no association attempt, fetches no credentials
\* and leaves the rotation cursor where it was, however many such calls
\* are made in a row.
C2_AssociatedGuardIsNoOp ==
    GuardSaw("associated") =>
        /\ Attempts(trace) = <<>>
        /\ ~HasEvent("fetch")
        /\ ~HasEvent("session")
        /\ _ap_index = pre.ap_index
        /\ pc \in {"guard", "body", "idle"}

\* a request made after an earlier connect() found the radio associated and
\* returned, with the cursor where that connect() left it
C2_Witness ==
    /\ GuardSaw("associated")
    /\ Done
    /\ result = "ok"
    /\ _requests # None
    /\ ValidSeq
    /\ Len(ssid.v) = 2
    /\ _ap_index = 1

\* ---------------------------------------------------------------------- C3
\* C3: within one connect_normal call every association attempt uses the
\* one pair fetched at the start of the call, whatever the number of
\* transient failures, and the cursor is advanced exactly once per call.
C3_OnePairPerCall ==
    /\ Count("fetch") <= 1
    /\ (pc \in {"loop", "attempt", "session"} \/ Attempts(trace) # <<>>)
           => Count("fetch") = 1
    /\ (Count("fetch") = 1 /\ (ValidSeq \/ Scalar)) =>
        /\ _ap_index = IF ValidSeq THEN (pre.ap_index + 1) % Len(ssid.v)
                                   ELSE pre.ap_index
        /\ ap = PairAt(pre.ap_index)
        /\ \A i \in DOMAIN trace :
               trace[i][1] = "attempt" => trace[i] = Attempt(PairAt(pre.ap_index))

\* credentials [(A,a),(B,b)]: the first call fails once, then succeeds
C3_Witness ==
    /\ ssid.v = <<"A", "B">> /\ password.v = <<"a", "b">>
    /\ ssid.isSeq /\ password.kind = "seq"
    /\ pre.ap_index = 0 /\ Len(fetched) = 1
    /\ op = "connect_normal" /\ Done /\ result = "ok"
    /\ Attempts(trace) = <<Attempt(<<"A", "a">>), Attempt(<<"A", "a">>)>>
    /\ _ap_index = 1

\* ---------------------------------------------------------------------- C4
\* C4: a ValueError or RuntimeError raised by radio.connect is never raised
\* to the caller and is followed by another association attempt; any other
\* error, a credential-shape error of the fetch included, ends the call at
\* once with that error and no attempt after it.
C4_TransientAbsorbed ==
    /\ \A i \in DOMAIN trace :
        trace[i][1] = "raised" =>
            IF trace[i][2] \in {"ValueError", "RuntimeError"}
            THEN IF i = Len(trace)
                 THEN pc \in {"loop", "attempt"} /\ result = "running" /\ ~ap_info
                 ELSE /\ i + 2 <= Len(trace)
                      /\ trace[i + 1] = Signal("connecting")
                      /\ trace[i + 2][1] = "attempt"
            ELSE i = Len(trace) /\ Done /\ result = trace[i][2]
    /\ (Done /\ result \in {"ValueError", "RuntimeError", "NotImplementedError"}
             /\ op \in GuardedOps \cup {"connect", "connect_normal"})
           => Attempts(trace) = <<>> /\ ~HasEvent("session")

\* a call that absorbed a transient failure and returned normally
C4_Witness ==
    /\ Done /\ result = "ok"
    /\ op \in RequestVerbs
    /\ \E i \in DOMAIN trace : trace[i] = <<"raised", "ValueError", "">>
    /\ Len(Attempts(trace)) = 2

\* ---------------------------------------------------------------------- C5
\* C5: for two equal-length sequences of length N >= 1, the k-th
\* _get_next_ap call since construction returns the pair at index
\* (k - 1) mod N.
C5_RoundRobin ==
    ValidSeq =>
        \A k \in DOMAIN fetched : fetched[k] = PairAt((k - 1) % Len(ssid.v))

\* N = 2 and the (N+1)-th fetch has been made
C5_Witness ==
    /\ ValidSeq
    /\ Len(ssid.v) = 2
    /\ Len(fetched) = 3
    /\ fetched[3] = fetched[1]
    /\ fetched[2] # fetched[1]

\* ---------------------------------------------------------------------- C6
\* the call that just ended ran _get_next_ap
FetchTried ==
    /\ Done
    /\ \/ op \in {"_get_next_ap", "connect_normal"}
       \/ op = "connect" /\ _connection_type = NORMAL
       \/ GuardSaw("unassociated") /\ _connection_type = NORMAL

\* C6 as stated: in every malformed case (unequal lengths, an empty
\* sequence, exactly one of the two a sequence) the fetch fails with one and
\* the same error kind, returns no pair and leaves the cursor unchanged.
C6_SameErrorKind ==
    (FetchTried /\ Malformed(ssid, password)) =>
        /\ \A s \in SsidConfigs, p \in PasswordConfigs :
               Malformed(s, p) => _get_next_ap(s, p, 0).err = result
        /\ fetched = <<>>
        /\ _ap_index = pre.ap_index

\* C6 as amended: the fetch fails in every malformed case, with ValueError
\* when both are sequences (one empty, or of unequal length) and with
\* NotImplementedError when exactly one of the two is a sequence; no pair
\* is returned, no prefix of the lists is used, no association attempt is
\* made and the cursor stays where it was.
C6_MalformedFails ==
    Malformed(ssid, password) =>
        /\ fetched = <<>>
        /\ _ap_index = 0
        /\ ap = <<"", "">>
        /\ Attempts(trace) = <<>>
        /\ FetchTried =>
               result = IF ssid.isSeq /\ password.kind = "seq"
                        THEN "ValueError"
                        ELSE "NotImplementedError"

\* SSIDs [A, B] with the one password [a]: the fetch has failed
C6_Witness ==
    /\ ssid.v = <<"A", "B">> /\ ssid.isSeq
    /\ password.v = <<"a">> /\ password.kind = "seq"
    /\ FetchTried
    /\ op = "connect_normal"
    /\ result = "ValueError"

\* ---------------------------------------------------------------------- C7
\* C7: after deinit() on a manager that had a session, a request never
\* dispatches through a session whose socket pool deinit released.
C7_DispatchOnLivePool ==
    \A i \in DOMAIN trace : trace[i][1] = "dispatch" => trace[i][3] = "live"

\* ---------------------------------------------------------------------- C8
\* C8: deinit() returns without error in every state, and no pool is
\* released twice.
C8_DeinitSucceeds ==
    /\ (op \in {"deinit", "__exit__"} /\ Done) => result = "ok"
    /\ \A i, j \in DOMAIN closeLog : closeLog[i] = closeLog[j] => i = j

\* ---------------------------------------------------------------------- C9
\* C9: connect_enterprise(), create_ap() and reset() raise
\* NotImplementedError in every state and change nothing; connect() on an
\* ENTERPRISE manager raises NotImplementedError, and such a manager never
\* has a socket pool or a session.
C9_StubsRaise ==
    /\ (op \in {"connect_enterprise", "create_ap", "reset"} /\ Done) =>
           /\ result = "NotImplementedError"
           /\ ManagerState = pre
           /\ trace = <<>>
    /\ _connection_type = ENTERPRISE =>
           /\ _pool = None
           /\ _requests = None
           /\ (op = "connect" /\ Done) =>
                  /\ result = "NotImplementedError"
                  /\ ManagerState = pre
                  /\ trace = <<>>
           /\ (GuardSaw("unassociated") /\ Done) => result = "NotImplementedError"

\* connect() has failed on an ENTERPRISE manager whose radio is not associated
C9_Witness ==
    /\ _connection_type = ENTERPRISE
    /\ op = "connect" /\ Done
    /\ result = "NotImplementedError"
    /\ ~ap_info

\* --------------------------------------------------------------------- C10
\* C10: connect() on a manager whose connection type is neither NORMAL nor
\* ENTERPRISE raises the invalid-connection-type error (TypeError) at once:
\* no association attempt, no credential fetch, cursor unchanged, no socket
\* pool and no session.
C10_InvalidTypeFails ==
    _connection_type \notin {NORMAL, ENTERPRISE} =>
        /\ _pool = None
        /\ _requests = None
        /\ (op = "connect" \/ GuardSaw("unassociated")) =>
               /\ Attempts(trace) = <<>>
               /\ ~HasEvent("fetch")
               /\ _ap_index = pre.ap_index
               /\ pc \in {"guard", "connect", "idle"}
               /\ Done => result = "TypeError"

\* connect() has failed on a manager with connection type 3
C10_Witness ==
    /\ _connection_type = 3
    /\ op = "connect" /\ Done
    /\ result = "TypeError"
    /\ ~ap_info
    /\ ValidSeq

\* --------------------------------------------------------------------- C11
\* C11: with scalar credentials (ssid a string, password a string or absent)
\* every _get_next_ap call returns the one configured pair and the cursor
\* stays at 0, whatever the calls and association attempts in between.
C11_ScalarPairFixed ==
    Scalar =>
        /\ _ap_index = 0
        /\ \A k \in DOMAIN fetched : fetched[k] = <<ssid.v[1], password.v[1]>>

\* no password given: the third fetch, made by a call that also had a
\* failed association attempt
C11_Witness ==
    /\ Scalar
    /\ password.kind = "none"
    /\ Len(fetched) = 3
    /\ fetched[3] = <<"A", "None">>
    /\ \E i \in DOMAIN trace : trace[i][1] = "raised"

\* --------------------------------------------------------------------- C12
\* the call that just ended received an NTP response of ntp.size bytes
NtpReceived == op = "get_ntp_time" /\ Done /\ HasEvent("recvfrom_into")

\* C12: for every NTP response of at least 48 bytes, get_ntp_time returns
\* and sets the clock to w - TIME1970 + tz_offset, w the word at index 10 of
\* the first 48 bytes; bytes beyond the first 48 cause no failure.
C12_ClockFromTransmitWord ==
    (NtpReceived /\ ntp.size >= 48) =>
        /\ result = "ok"
        /\ clock = Plus(Minus(ntp.w, TIME1970), ntp.tz)

\* --------------------------------------------------------------------- C13
\* the NTP exchange of the call that just ended failed: no response within
\* the timeout, or fewer than 48 bytes
NtpFailed ==
    /\ op = "get_ntp_time" /\ Done
    /\ HasEvent("sendto")
    /\ ~HasEvent("recvfrom_into") \/ ntp.size < 48

\* C13: when the NTP exchange fails (timeout, or fewer than 48 bytes)
\* get_ntp_time raises, does not retry, leaves the clock as it was and
\* leaves the datagram socket closed.
C13_NtpFailureLeavesClock ==
    NtpFailed =>
        /\ result \notin {"ok", "running"}
        /\ clock = pre.clock
        /\ Count("socket") = 1
        /\ Count("sendto") = 1
        /\ Count("recvfrom_into") <= 1
        /\ trace[Len(trace)] = Event("close")

\* a short response after an earlier exchange had set the clock
C13_Witness ==
    /\ NtpFailed
    /\ ntp.size = 47
    /\ result = "struct.error"
    /\ clock # Word(0, 0)
    /\ clock = pre.clock

\* --------------------------------------------------------------------- C14
\* C14: every request verb emits "busy" after the guard and directly before
\* it delegates to the session; when get, put, patch or delete returns
\* normally the last signal emitted is off, when post returns normally the
\* last signal is still "busy".
C14_BusyThenOffExceptPost ==
    op \in RequestVerbs =>
        /\ \A i \in DOMAIN trace :
               trace[i][1] = "dispatch" =>
                   /\ i > 2
                   /\ trace[i - 1] = Signal("busy")
                   /\ trace[1][1] \in {"associated", "unassociated"}
                   /\ trace[i][2] = op
        /\ (Done /\ result = "ok") =>
               /\ HasEvent("dispatch")
               /\ IF op = "post"
                  THEN /\ trace[Len(trace)][1] = "dispatch"
                       /\ trace[Len(trace) - 1] = Signal("busy")
                       /\ statuspix => pixel = "busy"
                  ELSE /\ trace[Len(trace)] = Signal("off")
                       /\ statuspix => pixel = "off"

\* post has returned on a manager with a status pixel: the pixel is busy
C14_Witness ==
    /\ op = "post" /\ Done /\ result = "ok"
    /\ statuspix
    /\ pixel = "busy"
    /\ GuardSaw("unassociated")

\* --------------------------------------------------------------------- C15
InConnectNormal == pc \in {"connect_normal", "loop", "attempt"}

\* connect_normal leaves its loop only on a check that saw an association
LoopExitsAssociated ==
    (pc = "loop" /\ pc' \notin {"loop", "attempt"}) => (ap_info /\ ap_info')

\* a call ends inside an attempt only by raising a non-transient error
AttemptRaisesNonTransient ==
    (pc = "attempt" /\ pc' \notin {"loop", "attempt"}) =>
        (pc' = "idle" /\ result' \notin Transient \cup {"ok", "running"})

\* C15: connect_normal has no attempt cap: it leaves the loop only when the
\* radio reported an association at the last check, a transient failure
\* neither returns nor raises but goes round the loop again, and, the radio
\* eventually associating, connect_normal eventually ends.
C15_ReturnsOnceAssociated ==
    /\ [][LoopExitsAssociated /\ AttemptRaisesNonTransient]_vars
    /\ [](pc = "attempt" => ~ap_info)
    /\ (InConnectNormal ~> ~InConnectNormal)

\* connect_normal returned after more transient failures than the trace holds
C15_Witness ==
    /\ op = "connect_normal" /\ Done /\ result = "ok"
    /\ ap_info
    /\ Count("raised") = MaxAttempts - 1
    /\ Count("attempt") = MaxAttempts
    /\ failure_count = 0
    /\ pixel = "connected"

\* --------------------------------------------------------------------- C16
\* C16: a connect() that returns normally has made one new pool and one new
\* session, a connect() that raises has made none, no call makes more than
\* one, and a guarded operation that finds the radio associated leaves the
\* pool and the session it found.
C16_SessionOncePerConnect ==
    /\ Count("session") <= 1
    /\ HasEvent("session") =>
           /\ _pool = pre.pool + 1
           /\ _requests = _pool
           /\ op \in GuardedOps \cup {"connect"}
    /\ ~HasEvent("session") => (_pool = pre.pool /\ _requests = pre.requests)
    /\ (op = "connect" /\ Done) => (HasEvent("session") <=> result = "ok")
    /\ GuardSaw("associated") => (_pool = pre.pool /\ _requests = pre.requests)
    /\ GuardSaw("unassociated") /\ pc \in {"body", "idle"} /\ ~HasEvent("session")
           => (Done /\ result \notin {"ok", "running"})

\* a second connect() has returned: a second pool and session replace the first
C16_Witness ==
    /\ op = "connect" /\ Done /\ result = "ok"
    /\ pre.pool = 1 /\ pre.requests = 1
    /\ _pool = 2 /\ _requests = 2
    /\ Count("session") = 1

\* --------------------------------------------------------------------- C17
IsRaised(e) == e[1] = "raised"

\* every attempt directly follows a "connecting" signal, and "connected" is
\* emitted only directly after an attempt
AttemptsSignalled ==
    \A i \in DOMAIN trace :
        /\ trace[i][1] = "attempt" =>
               /\ i > 1 /\ trace[i - 1] = Signal("connecting")
               /\ i < Len(trace)
               /\ trace[i + 1] = Signal("connected") \/ IsRaised(trace[i + 1])
        /\ trace[i] = Signal("connecting") =>
               (i < Len(trace) /\ trace[i + 1][1] = "attempt")
        /\ trace[i] = Signal("connected") =>
               (i > 1 /\ trace[i - 1][1] = "attempt")

\* C17 as stated: attempts are signalled as above, and an attempt that
\* returns without error is the last attempt of its connect_normal call,
\* whatever the radio reports afterwards.
C17_SuccessIsLastAttempt ==
    /\ AttemptsSignalled
    /\ \A i \in DOMAIN trace : \A j \in DOMAIN trace :
           (trace[i] = Signal("connected") /\ j > i) => trace[j][1] # "attempt"

\* the position of the last attempt in the trace, 0 if there is none
LastAttempt ==
    IF \E i \in DOMAIN trace : trace[i][1] = "attempt"
    THEN CHOOSE i \in DOMAIN trace :
             /\ trace[i][1] = "attempt"
             /\ \A j \in DOMAIN trace : j > i => trace[j][1] # "attempt"
    ELSE 0

\* connect_normal's loop has been left without an error
LoopLeft ==
    \/ pc \in {"session", "body"}
    \/ Done /\ result = "ok" /\ op \in GuardedOps \cup {"connect", "connect_normal"}

\* what follows a successful attempt: the next attempt's signal, or the
\* loop's exit; and the loop is left only after a successful last attempt
SuccessThenExitOrRetry ==
    /\ \A i \in DOMAIN trace :
           (trace[i] = Signal("connected") /\ i < Len(trace)) =>
               trace[i + 1] \in {Signal("connecting"), Event("session")}
    /\ (LoopLeft /\ LastAttempt # 0) =>
           trace[LastAttempt + 1] = Signal("connected")

\* the loop's test: the next attempt is made exactly when the radio reports
\* no association
LoopRechecks == pc = "loop" => (pc' = "attempt" <=> ~ap_info)

\* C17: attempts are signalled as above; after an attempt that returned
\* without error the loop tests the radio again: it exits if the radio
\* reports an association and makes a further attempt if it reports none,
\* so a successful attempt is the last one only on a radio that still
\* reports the association at that test.
C17_SuccessThenRecheck ==
    [][/\ AttemptsSignalled'
       /\ SuccessThenExitOrRetry'
       /\ LoopRechecks
       /\ pc' = "attempt" => ~ap_info']_vars

\* the radio lost the association right after a successful attempt: a
\* second attempt, also successful, before connect_normal returned
C17_Witness ==
    /\ op = "connect_normal" /\ Done /\ result = "ok"
    /\ trace = <<Event("fetch"),
                 Signal("connecting"), Attempt(ap), Signal("connected"),
                 Signal("connecting"), Attempt(ap), Signal("connected")>>

\* --------------------------------------------------------------------- C18
\* the pools made so far that have not been closed
Unreleased == {p \in 1 .. _pool : ~Released(p)}

\* C18: at no time does the manager hold more than one unreleased pool, and
\* after deinit() has returned every pool ever made has been released.
C18_NoPoolLeaked ==
    /\ Cardinality(Unreleased) <= 1
    /\ (op \in {"deinit", "__exit__"} /\ Done /\ result = "ok") => Unreleased = {}

\* --------------------------------------------------------------------- C19
\* the guard of the running or last call has been passed without an error
PassedGuard ==
    /\ op \in RequestVerbs
    /\ GuardSaw("associated") \/ HasEvent("session")

\* C19: a request verb call that passes the guard delegates to the session
\* exactly once: a failure of the delegated call ends the call at once, with
\* no second dispatch, no reconnection and no further signal.
C19_DelegatesExactlyOnce ==
    op \in RequestVerbs =>
        /\ Count("dispatch") <= 1
        /\ (PassedGuard /\ Done) => Count("dispatch") = 1
        /\ \A i \in DOMAIN trace : \A j \in DOMAIN trace :
               (trace[i][1] = "dispatch" /\ j > i) => trace[j] = Signal("off")
        /\ (Done /\ result = "OSError") => trace[Len(trace)][1] = "dispatch"

\* --------------------------------------------------------------------- C20
\* C20: with a valid sequence configuration of length N the cursor is
\* always in 0 .. N - 1, it is the number of fetches made so far modulo N,
\* and a call that made no fetch leaves it where it was.
C20_CursorInRange ==
    ValidSeq =>
        /\ _ap_index \in 0 .. Len(ssid.v) - 1
        /\ _ap_index = Len(fetched) % Len(ssid.v)
        /\ ~HasEvent("fetch") => _ap_index = pre.ap_index
        /\ Count("fetch") <= 1

\* two pairs, three fetches, a transient failure in the call that just
\* ended, and a deinit before it
C20_Witness ==
    /\ ValidSeq /\ Len(ssid.v) = 2
    /\ Len(fetched) = 3
    /\ _ap_index = 1
    /\ closeLog # <<>>
    /\ Done /\ op \in GuardedOps
    /\ HasEvent("raised")

====
